---- MODULE Spec2Model ----
(***************************************************************************)
(* Model of confluent_kafka.schema_registry.json_schema: JSONSerializer    *)
(* and JSONDeserializer (Confluent Schema Registry framing around JSON     *)
(* documents), with the Schema Registry client as the environment.         *)
(***************************************************************************)
EXTENDS Integers, Sequences, FiniteSets, TLC

(***************************************************************************)
(* Python values.  Every value is a record tagged by t; text is a sequence *)
(* of code points (all ASCII here), so that json.dumps / str.encode /      *)
(* json.loads work on bytes and are not the identity.                      *)
(***************************************************************************)
PyNone == [t |-> "none"]
PyInt(n) == [t |-> "int", n |-> n]
PyStr(s) == [t |-> "str", s |-> s]
PyDict(items) == [t |-> "dict", items |-> items]
PyTuple(elems) == [t |-> "tuple", elems |-> elems]
PyList(elems) == [t |-> "list", elems |-> elems]
PyObject(n) == [t |-> "obj", id |-> n]
PyBytes(b) == [t |-> "bytes", b |-> b]

\* "id"
KeyId == <<105, 100>>
\* "Order"
TitleOrder == <<79, 114, 100, 101, 114>>

Keys(d) == {d.items[i][1] : i \in DOMAIN d.items}
\* dict lookup: the last item stored under the key
DictGet(d, k) ==
    LET idx == {i \in DOMAIN d.items : d.items[i][1] = k}
    IN d.items[CHOOSE i \in idx : \A j \in idx : j <= i][2]

RECURSIVE PyEq(_, _)
\* Python's == on the values of the model
PyEq(a, b) ==
    IF a.t # b.t THEN FALSE
    ELSE IF a.t = "dict"
         THEN /\ Keys(a) = Keys(b)
              /\ \A k \in Keys(a) : PyEq(DictGet(a, k), DictGet(b, k))
    ELSE IF a.t \in {"list", "tuple"}
         THEN /\ Len(a.elems) = Len(b.elems)
              /\ \A i \in DOMAIN a.elems : PyEq(a.elems[i], b.elems[i])
    ELSE a = b

(***************************************************************************)
(* json.dumps(value).encode('utf8')                                        *)
(***************************************************************************)
RECURSIVE Digits(_)
Digits(n) == IF n < 10 THEN <<48 + n>> ELSE Digits(n \div 10) \o <<48 + (n % 10)>>

IntText(n) == IF n < 0 THEN <<45>> \o Digits(-n) ELSE Digits(n)

Quote(s) == <<34>> \o s \o <<34>>

\* json.dumps coerces a dict key to text: an int key becomes its decimal text
KeyText(k) == IF k.t = "int" THEN IntText(k.n) ELSE k.s

RECURSIVE JsonDumps(_)
RECURSIVE DumpItems(_, _)
RECURSIVE DumpElems(_, _)
DumpItems(items, i) ==
    IF i > Len(items) THEN <<>>
    ELSE (IF i > 1 THEN <<44, 32>> ELSE <<>>)
         \o Quote(KeyText(items[i][1])) \o <<58, 32>> \o JsonDumps(items[i][2])
         \o DumpItems(items, i + 1)
DumpElems(elems, i) ==
    IF i > Len(elems) THEN <<>>
    ELSE (IF i > 1 THEN <<44, 32>> ELSE <<>>)
         \o JsonDumps(elems[i]) \o DumpElems(elems, i + 1)
JsonDumps(v) ==
    CASE v.t = "int" -> IntText(v.n)
      [] v.t = "str" -> Quote(v.s)
      [] v.t = "none" -> <<110, 117, 108, 108>>
      [] v.t = "dict" -> <<123>> \o DumpItems(v.items, 1) \o <<125>>
      [] v.t \in {"list", "tuple"} -> <<91>> \o DumpElems(v.elems, 1) \o <<93>>

\* json.dumps raises TypeError on a value that is not JSON serializable
RECURSIVE Serializable(_)
Serializable(v) ==
    CASE v.t \in {"int", "str", "none"} -> TRUE
      [] v.t = "dict" -> \A i \in DOMAIN v.items :
                            /\ v.items[i][1].t \in {"int", "str"}
                            /\ Serializable(v.items[i][2])
      [] v.t \in {"list", "tuple"} -> \A i \in DOMAIN v.elems : Serializable(v.elems[i])
      [] OTHER -> FALSE

(***************************************************************************)
(* json.loads(bytes): a recursive-descent reading of the JSON subset the   *)
(* model's documents are written in (objects, arrays, strings without      *)
(* escapes, integers, null; whitespace between tokens).                    *)
(***************************************************************************)
ParseFail == [ok |-> FALSE, v |-> PyNone, next |-> 0]
ParseOk(v, next) == [ok |-> TRUE, v |-> v, next |-> next]

IsWs(c) == c \in {32, 9, 10, 13}
IsDigit(c) == c >= 48 /\ c <= 57

RECURSIVE SkipWs(_, _)
SkipWs(b, i) == IF i <= Len(b) /\ IsWs(b[i]) THEN SkipWs(b, i + 1) ELSE i

RECURSIVE DigitsEnd(_, _)
DigitsEnd(b, i) == IF i <= Len(b) /\ IsDigit(b[i]) THEN DigitsEnd(b, i + 1) ELSE i

RECURSIVE NatOf(_, _, _)
\* the number written by the digits b[i..j-1]
NatOf(b, i, j) == IF j <= i THEN 0 ELSE NatOf(b, i, j - 1) * 10 + (b[j - 1] - 48)

ParseNat(b, i) ==
    IF i > Len(b) \/ ~IsDigit(b[i]) THEN ParseFail
    ELSE IF b[i] = 48 THEN ParseOk(0, i + 1)
    ELSE ParseOk(NatOf(b, i, DigitsEnd(b, i)), DigitsEnd(b, i))

ParseNumber(b, i) ==
    IF b[i] = 45
    THEN LET r == ParseNat(b, i + 1)
         IN IF r.ok THEN ParseOk(PyInt(-r.v), r.next) ELSE ParseFail
    ELSE LET r == ParseNat(b, i)
         IN IF r.ok THEN ParseOk(PyInt(r.v), r.next) ELSE ParseFail

RECURSIVE StringEnd(_, _)
\* index of the closing quote of the string whose text starts at i, 0 if none
StringEnd(b, i) ==
    IF i > Len(b) THEN 0
    ELSE IF b[i] = 34 THEN i
    ELSE IF b[i] < 32 \/ b[i] = 92 \/ b[i] > 127 THEN 0
    ELSE StringEnd(b, i + 1)

ParseString(b, i) ==
    IF i > Len(b) \/ b[i] # 34 THEN ParseFail
    ELSE LET e == StringEnd(b, i + 1)
         IN IF e = 0 THEN ParseFail
            ELSE ParseOk(PyStr(SubSeq(b, i + 1, e - 1)), e + 1)

IsLiteral(b, i, lit) ==
    /\ i + Len(lit) - 1 <= Len(b)
    /\ SubSeq(b, i, i + Len(lit) - 1) = lit

\* a later duplicate of a key replaces the earlier one
PutItem(items, k, v) ==
    SelectSeq(items, LAMBDA it : it[1] # k) \o << <<k, v>> >>

RECURSIVE ParseValue(_, _)
RECURSIVE ParseMembers(_, _, _)
RECURSIVE ParseElements(_, _, _)
\* i is at the first character of a member's key
ParseMembers(b, i, acc) ==
    LET k == ParseString(b, i)
    IN IF ~k.ok THEN ParseFail
       ELSE LET c == SkipWs(b, k.next)
            IN IF c > Len(b) \/ b[c] # 58 THEN ParseFail
               ELSE LET r == ParseValue(b, SkipWs(b, c + 1))
                    IN IF ~r.ok THEN ParseFail
                       ELSE LET n == SkipWs(b, r.next)
                                items == PutItem(acc, k.v, r.v)
                            IN IF n > Len(b) THEN ParseFail
                               ELSE IF b[n] = 125 THEN ParseOk(PyDict(items), n + 1)
                               ELSE IF b[n] = 44
                                    THEN ParseMembers(b, SkipWs(b, n + 1), items)
                               ELSE ParseFail
\* i is at the first character of an element
ParseElements(b, i, acc) ==
    LET r == ParseValue(b, i)
    IN IF ~r.ok THEN ParseFail
       ELSE LET n == SkipWs(b, r.next)
                elems == Append(acc, r.v)
            IN IF n > Len(b) THEN ParseFail
               ELSE IF b[n] = 93 THEN ParseOk(PyList(elems), n + 1)
               ELSE IF b[n] = 44 THEN ParseElements(b, SkipWs(b, n + 1), elems)
               ELSE ParseFail
ParseValue(b, i) ==
    IF i > Len(b) THEN ParseFail
    ELSE IF b[i] = 34 THEN ParseString(b, i)
    ELSE IF b[i] = 45 \/ IsDigit(b[i]) THEN ParseNumber(b, i)
    ELSE IF IsLiteral(b, i, <<110, 117, 108, 108>>) THEN ParseOk(PyNone, i + 4)
    ELSE IF b[i] = 123
         THEN LET n == SkipWs(b, i + 1)
              IN IF n <= Len(b) /\ b[n] = 125 THEN ParseOk(PyDict(<<>>), n + 1)
                 ELSE ParseMembers(b, n, <<>>)
    ELSE IF b[i] = 91
         THEN LET n == SkipWs(b, i + 1)
              IN IF n <= Len(b) /\ b[n] = 93 THEN ParseOk(PyList(<<>>), n + 1)
                 ELSE ParseElements(b, n, <<>>)
    ELSE ParseFail

\* json.loads: one value, then nothing but whitespace; raises otherwise
JsonLoads(b) ==
    LET r == ParseValue(b, SkipWs(b, 1))
    IN IF r.ok /\ SkipWs(b, r.next) = Len(b) + 1 THEN [ok |-> TRUE, v |-> r.v]
       ELSE [ok |-> FALSE, v |-> PyNone]

(***************************************************************************)
(* struct.pack('>bI', magic, id) and struct.unpack('>bI', header).         *)
(* A schema id is an unsigned 32-bit quantity; it is kept as its two       *)
(* 16-bit halves, id = hi * 65536 + lo, so that the whole range            *)
(* 0 .. 2^32 - 1 is representable.                                         *)
(***************************************************************************)
MagicByte == 0
Half == 65536

U32(hi, lo) == [hi |-> hi, lo |-> lo]
\* self._schema_id = None
NoId == [hi |-> -1, lo |-> -1]

\* mutant: the id written least significant byte first
PackUInt32_LittleEndian(id) ==
    <<id.lo % 256, id.lo \div 256, id.hi % 256, id.hi \div 256>>
\* '>I': four bytes, most significant first
PackUInt32(id) ==
    <<id.hi \div 256, id.hi % 256, id.lo \div 256, id.lo % 256>>
\* '>b': one signed byte, two's complement
PackInt8(n) == <<IF n < 0 THEN n + 256 ELSE n>>
\* struct.error when a value does not fit its field
Packable(magic, id) ==
    /\ magic >= -128 /\ magic <= 127
    /\ id.hi >= 0 /\ id.hi < Half /\ id.lo >= 0 /\ id.lo < Half
\* mutant: the header is the id alone
StructPack_NoMagic(magic, id) == PackUInt32(id)
\* struct.pack('>bI', magic, id)
StructPack(magic, id) == PackInt8(magic) \o PackUInt32(id)

UnpackInt8(byte) == IF byte >= 128 THEN byte - 256 ELSE byte
UnpackUInt32(h) == U32(h[1] * 256 + h[2], h[3] * 256 + h[4])
\* mutant: the fields are read in the wrong order, the id first
StructUnpack_IdFirst(h) == [magic |-> UnpackInt8(h[5]), schema_id |-> UnpackUInt32(SubSeq(h, 1, 4))]
\* magic, schema_id = struct.unpack('>bI', payload.read(5))
StructUnpack(h) == [magic |-> UnpackInt8(h[1]), schema_id |-> UnpackUInt32(SubSeq(h, 2, 5))]

(***************************************************************************)
(* jsonschema.validate(instance, schema), for the keywords the schemas of  *)
(* the model use: type, required, properties.                              *)
(***************************************************************************)
TxtTitle == <<116, 105, 116, 108, 101>>
TxtType == <<116, 121, 112, 101>>
TxtObject == <<111, 98, 106, 101, 99, 116>>
TxtRequired == <<114, 101, 113, 117, 105, 114, 101, 100>>
TxtProperties == <<112, 114, 111, 112, 101, 114, 116, 105, 101, 115>>
TxtInteger == <<105, 110, 116, 101, 103, 101, 114>>
TxtString == <<115, 116, 114, 105, 110, 103>>
TxtArray == <<97, 114, 114, 97, 121>>

Has(d, name) == PyStr(name) \in Keys(d)
Get(d, name) == DictGet(d, PyStr(name))

\* a message of an exception: what it says and the value it cites
Msg(kw, what) == [kw |-> kw, what |-> what]
NoError == Msg("ok", PyNone)

TypeOk(inst, ty) ==
    CASE ty = TxtObject -> inst.t = "dict"
      [] ty = TxtInteger -> inst.t = "int"
      [] ty = TxtString -> inst.t = "str"
      [] ty = TxtArray -> inst.t = "list"
      [] OTHER -> FALSE

RECURSIVE ValidationErrorOf(_, _)
\* the ValidationError's message, or NoError: the first failing keyword in
\* the order type, required, properties
ValidationErrorOf(inst, schema) ==
    IF Has(schema, TxtType) /\ ~TypeOk(inst, Get(schema, TxtType).s)
    THEN Msg("is not of type", Get(schema, TxtType))
    ELSE IF inst.t # "dict" THEN NoError
    ELSE LET req == IF Has(schema, TxtRequired) THEN Get(schema, TxtRequired).elems ELSE <<>>
             missing == {i \in DOMAIN req : req[i] \notin Keys(inst)}
             props == IF Has(schema, TxtProperties) THEN Get(schema, TxtProperties)
                      ELSE PyDict(<<>>)
             bad == {k \in Keys(props) \cap Keys(inst) :
                        ValidationErrorOf(DictGet(inst, k), DictGet(props, k)) # NoError}
         IN IF missing # {}
            THEN Msg("is a required property", req[CHOOSE i \in missing : \A j \in missing : i <= j])
            ELSE IF bad # {}
            THEN LET k == CHOOSE k \in bad : TRUE
                 IN ValidationErrorOf(DictGet(inst, k), DictGet(props, k))
            ELSE NoError

(***************************************************************************)
(* The schemas and the values of the model.                                *)
(***************************************************************************)
\* {"type": "object", "required": ["id"], "properties": {"id": {"type": "integer"}}}
OrderBody ==
    << <<PyStr(TxtType), PyStr(TxtObject)>>,
       <<PyStr(TxtRequired), PyList(<<PyStr(KeyId)>>)>>,
       <<PyStr(TxtProperties),
         PyDict(<< <<PyStr(KeyId), PyDict(<< <<PyStr(TxtType), PyStr(TxtInteger)>> >>)>> >>)>> >>
\* the schema with its title annotation, and the same schema without it
OrderSchemaStr == JsonDumps(PyDict(<< <<PyStr(TxtTitle), PyStr(TitleOrder)>> >> \o OrderBody))
UntitledSchemaStr == JsonDumps(PyDict(OrderBody))
\* the schema definitions a codec may be constructed with; a state refers to
\* one by name
SchemaStrs == {"Order", "Untitled"}
SchemaText == [name \in SchemaStrs |-> IF name = "Order" THEN OrderSchemaStr ELSE UntitledSchemaStr]
\* json.loads(schema_str)
ParsedSchema == [name \in SchemaStrs |-> JsonLoads(SchemaText[name]).v]
\* self._parsed_schema
ParsedSchemaOf(inst) == ParsedSchema[inst.schema]

\* {"id": 42}
Order42 == PyDict(<< <<PyStr(KeyId), PyInt(42)>> >>)
\* {}: lacks the required property
EmptyDict == PyDict(<<>>)
\* {"id": 42, 1: 0}: conforms to the schema, has a key that is no string
MixedKeys == PyDict(<< <<PyStr(KeyId), PyInt(42)>>, <<PyInt(1), PyInt(0)>> >>)
\* an application object Order(id=42), which only a to_dict callback turns into a dict
OrderObject == PyObject(42)

Objects == {PyNone, Order42, EmptyDict, MixedKeys, OrderObject}

\* the application's to_dict(obj, ctx): Order(id=n) -> {"id": n}, a dict as it is
ToDict(obj, ctx) == IF obj.t = "obj" THEN PyDict(<< <<PyStr(KeyId), PyInt(obj.id)>> >>) ELSE obj
\* the application's from_dict(dict, ctx): {"id": n} -> Order(id=n)
FromDict(d, ctx) == IF d.t = "dict" /\ Has(d, KeyId) THEN PyObject(Get(d, KeyId).n) ELSE d

(***************************************************************************)
(* SerializationContext and the subject name strategy.                     *)
(***************************************************************************)
Ctxs == {[topic |-> "orders", field |-> "value"], [topic |-> "users", field |-> "value"]}
\* topic_subject_name_strategy: {topic name}-{message field}
TopicSubjectNameStrategy(ctx, record_name) == ctx.topic \o "-" \o ctx.field
Subjects == {TopicSubjectNameStrategy(c, TitleOrder) : c \in Ctxs}

(***************************************************************************)
(* The state.                                                              *)
(***************************************************************************)
VARIABLES
    ser,             \* the JSONSerializer instance: its configuration, fixed by __init__
    known_subjects,  \* JSONSerializer._known_subjects
    schema_id,       \* JSONSerializer._schema_id
    des,             \* the JSONDeserializer instance
    registered,      \* registry: the subjects the serializer's schema is registered under
    latest,          \* registry: the id of the latest schema version of each subject
    last,            \* the last call made on the codec and what the caller observed
    resolved,        \* history: per subject, the ids the registry returned to the serializer
    thr              \* per thread, its position in JSONSerializer.__call__ and its locals

vars == <<ser, known_subjects, schema_id, des, registered, latest, last, resolved, thr>>

\* how many registry answers per subject the history keeps
MaxResolutions == 2

PyBool(b) == [t |-> "bool", b |-> b]
PyCallable(name) == [t |-> "callable", name |-> name]
\* mutant: anything passes for a callable
Callable_Anything(v) == TRUE
\* a key that a dict does not hold, an argument that is not passed
Absent == [t |-> "absent"]
IsBool(v) == v.t = "bool"
Callable(v) == v.t = "callable"

(***************************************************************************)
(* The Schema Registry, as the serializer's client sees it.  Ids are       *)
(* assigned by schema content: the serializer's schema has one id, other   *)
(* schemas have others.                                                    *)
(***************************************************************************)
SchemaContentId == U32(0, 7)
OtherIds == {U32(65535, 65535)}
Ids == {SchemaContentId} \cup OtherIds

\* a call of the registry client as made by the serializer, and whether it returned
RegistryCallRecord(op, subject, normalize, ok) ==
    [op |-> op, subject |-> subject, normalize |-> normalize, ok |-> ok]
RegistryAnswer(ok, id, reg, lat) == [ok |-> ok, id |-> id, registered |-> reg, latest |-> lat]
RegistryFailure == RegistryAnswer(FALSE, NoId, registered, latest)

\* register_schema(subject, schema, normalize): associate if absent, return the id
RegisterSchema(subject, net) ==
    IF ~net THEN RegistryFailure
    ELSE RegistryAnswer(TRUE, SchemaContentId, registered \cup {subject},
                        IF subject \in registered THEN latest
                        ELSE [latest EXCEPT ![subject] = SchemaContentId])
\* lookup_schema(subject, schema, normalize): fails unless registered under the subject
LookupSchema(subject, net) ==
    IF ~net \/ subject \notin registered THEN RegistryFailure
    ELSE RegistryAnswer(TRUE, SchemaContentId, registered, latest)
\* get_latest_version(subject): whatever schema is the subject's latest version
GetLatestVersion(subject, net) ==
    IF ~net \/ latest[subject] = NoId THEN RegistryFailure
    ELSE RegistryAnswer(TRUE, latest[subject], registered, latest)

\* another client registers a schema of its own under the subject
RegistryPublish(subject, id) ==
    /\ id \in OtherIds /\ latest[subject] # id
    /\ latest' = [latest EXCEPT ![subject] = id]
    /\ UNCHANGED <<ser, known_subjects, schema_id, des, registered, last, resolved, thr>>
\* another client registers the serializer's schema under the subject
RegistryRegister(subject) ==
    /\ subject \notin registered
    /\ registered' = registered \cup {subject}
    /\ latest' = [latest EXCEPT ![subject] = SchemaContentId]
    /\ UNCHANGED <<ser, known_subjects, schema_id, des, last, resolved, thr>>

(***************************************************************************)
(* What a caller observes of a call.                                       *)
(***************************************************************************)
NoCtx == [topic |-> "", field |-> ""]
Call(op, arg, ctx) ==
    [op |-> op, arg |-> arg, ctx |-> ctx,
     outcome |-> "return", exc |-> "none", msg |-> NoError, ret |-> PyNone,
     subject |-> "", registry_calls |-> <<>>,
     strategy_calls |-> 0, to_dict_calls |-> 0, validate_calls |-> 0,
     loads_calls |-> 0, from_dict_calls |-> 0, origin |-> Absent,
     schema_str |-> "", hook |-> Absent,
     pre_known |-> known_subjects, pre_id |-> schema_id]
Raise(call, exc, msg) == [call EXCEPT !.outcome = "raise", !.exc = exc, !.msg = msg]
Return(call, value) == [call EXCEPT !.ret = value]

(***************************************************************************)
(* JSONSerializer.__init__                                                 *)
(***************************************************************************)
NoSerializer == [live |-> FALSE]

\* mutant: schemas are not registered unless the caller asks for it
DefaultConf_NoAutoRegister ==
    [auto |-> PyBool(FALSE), normalize |-> PyBool(FALSE), latest |-> PyBool(FALSE),
     strategy |-> PyCallable("topic_subject_name_strategy"), extra |-> Absent]
\* _default_conf
DefaultConf ==
    [auto |-> PyBool(TRUE), normalize |-> PyBool(FALSE), latest |-> PyBool(FALSE),
     strategy |-> PyCallable("topic_subject_name_strategy"), extra |-> Absent]
ConfKeys == {"auto", "normalize", "latest", "strategy", "extra"}
\* conf_copy = self._default_conf.copy(); conf_copy.update(conf)
MergedConf(conf) == [k \in ConfKeys |-> IF conf[k] = Absent THEN DefaultConf[k] ELSE conf[k]]

\* mutant: the two modes are not checked against each other
ConflictingModes_Unchecked(use_latest, auto_register) == FALSE
\* if self._use_latest_version and self._auto_register: raise
ConflictingModes(use_latest, auto_register) == use_latest /\ auto_register

ConfigError(text) == [ok |-> FALSE, msg |-> Msg(text, PyNone), inst |-> NoSerializer]

\* the instance __init__ builds, or the ValueError it raises
SerializerInit(schema_str, to_dict, conf) ==
    LET c == MergedConf(conf)
        schema_dict == ParsedSchema[schema_str]
    IN IF to_dict # PyNone /\ ~Callable(to_dict)
       THEN ConfigError("to_dict must be callable")
       ELSE IF ~IsBool(c.auto)
       THEN ConfigError("auto.register.schemas must be a boolean value")
       ELSE IF ~IsBool(c.normalize)
       THEN ConfigError("normalize.schemas must be a boolean value")
       ELSE IF ~IsBool(c.latest)
       THEN ConfigError("use.latest.version must be a boolean value")
       ELSE IF ConflictingModes(c.latest.b, c.auto.b)
       THEN ConfigError("cannot enable both use.latest.version and auto.register.schemas")
       ELSE IF ~Callable(c.strategy)
       THEN ConfigError("subject.name.strategy must be callable")
       ELSE IF c.extra # Absent
       THEN ConfigError("Unrecognized properties")
       ELSE IF ~Has(schema_dict, TxtTitle)
       THEN ConfigError("Missing required JSON schema annotation title")
       ELSE [ok |-> TRUE, msg |-> NoError,
             inst |-> [live |-> TRUE,
                       auto_register |-> c.auto.b,
                       normalize_schemas |-> c.normalize.b,
                       use_latest_version |-> c.latest.b,
                       subject_name_func |-> c.strategy,
                       to_dict |-> to_dict,
                       schema_name |-> Get(schema_dict, TxtTitle).s,
                       schema |-> schema_str]]

\* the configurations a caller may pass
NotABool == PyStr(<<121, 101, 115>>)
BoolOptions == {Absent, PyBool(TRUE), PyBool(FALSE), NotABool}
Confs ==
    [auto : BoolOptions, normalize : {Absent, PyBool(TRUE), NotABool}, latest : BoolOptions,
     strategy : {Absent, PyStr(<<120>>)}, extra : {Absent, PyInt(1)}]
HookOptions(name) == {PyNone, PyCallable(name), PyInt(1)}

\* the serializer is constructed once, before any other call
NewSerializer(schema_str, to_dict, conf) ==
    /\ ~ser.live /\ last.op = "none"
    /\ LET r == SerializerInit(schema_str, to_dict, conf)
           call == [Call("JSONSerializer", conf, NoCtx) EXCEPT
                       !.schema_str = schema_str, !.hook = to_dict]
       IN /\ ser' = r.inst
          /\ last' = IF r.ok THEN call ELSE Raise(call, "ValueError", r.msg)
    /\ known_subjects' = {}
    /\ schema_id' = NoId
    /\ UNCHANGED <<des, registered, latest, resolved, thr>>

(***************************************************************************)
(* JSONSerializer.__call__                                                 *)
(***************************************************************************)
\* subject = self._subject_name_func(ctx, self._schema_name)
SubjectOf(inst, ctx) == TopicSubjectNameStrategy(ctx, inst.schema_name)

\* mutant: every call resolves its subject anew
NeedsResolution_Always(subject, known) == TRUE
\* if subject not in self._known_subjects
NeedsResolution(subject, known) == subject \notin known
\* mutant: the newly resolved subject replaces the ones known
KnownAfter_Evicting(known, subject) == {subject}
\* mutant: the resolved subject is not remembered
KnownAfter_NotCached(known, subject) == known
\* self._known_subjects.add(subject)
KnownAfter(known, subject) == known \cup {subject}

\* mutant: lookup-only mode registers the schema
Resolve_AlwaysRegisters(inst, subject, net) ==
    IF inst.use_latest_version
    THEN LET ans == GetLatestVersion(subject, net)
         IN [ans |-> ans,
             call |-> RegistryCallRecord("get_latest_version", subject, Absent, ans.ok)]
    ELSE LET ans == RegisterSchema(subject, net)
         IN [ans |-> ans,
             call |-> RegistryCallRecord("register_schema", subject,
                                         PyBool(inst.normalize_schemas), ans.ok)]
\* the registry operation the configured mode makes for an unseen subject
Resolve(inst, subject, net) ==
    IF inst.use_latest_version
    THEN LET ans == GetLatestVersion(subject, net)
         IN [ans |-> ans,
             call |-> RegistryCallRecord("get_latest_version", subject, Absent, ans.ok)]
    ELSE IF inst.auto_register
    THEN LET ans == RegisterSchema(subject, net)
         IN [ans |-> ans,
             call |-> RegistryCallRecord("register_schema", subject,
                                         PyBool(inst.normalize_schemas), ans.ok)]
    ELSE LET ans == LookupSchema(subject, net)
         IN [ans |-> ans,
             call |-> RegistryCallRecord("lookup_schema", subject,
                                         PyBool(inst.normalize_schemas), ans.ok)]

\* mutant: the document is written behind its length
Frame_LengthPrefixed(id, value) ==
    StructPack(MagicByte, id) \o PackUInt32(U32(0, Len(JsonDumps(value)))) \o JsonDumps(value)
\* the envelope: magic byte, schema id, then the JSON document
Frame(id, value) == StructPack(MagicByte, id) \o JsonDumps(value)

\* value = self._to_dict(obj, ctx) if a callback is configured, else obj
ToValue(inst, obj, ctx) == IF inst.to_dict # PyNone THEN ToDict(obj, ctx) ELSE obj

\* mutant: None is treated as any other object
IsNull_Never(obj) == FALSE
\* obj is None
IsNull(obj) == obj = PyNone

\* mutant: the value is not validated
EncodeValidation_Skipped(inst, value) == NoError
\* validate(instance=value, schema=self._parsed_schema)
EncodeValidation(inst, value) == ValidationErrorOf(value, ParsedSchemaOf(inst))

\* mutant: the subject is added before the registry is called
KnownAfterRegistryError_Cached(known, subject) == known \cup {subject}
\* the subjects known once the registry call has raised: the exception leaves
\* __call__ before self._known_subjects.add(subject)
KnownAfterRegistryError(known, subject) == known

\* One call of the serializer from the state (known, id, registry): the state it
\* leaves and what the caller observes.  net: whether the registry call, if one
\* is made, gets through.
EncodeResult(inst, known, id, obj, ctx, net) ==
    LET call0 == Call("encode", obj, ctx)
        same == [known |-> known, id |-> id, registered |-> registered,
                 latest |-> latest, resolved |-> resolved]
    IN IF IsNull(obj) THEN same @@ [last |-> Return(call0, PyNone)]
       ELSE
       LET subject == SubjectOf(inst, ctx)
           need == NeedsResolution(subject, known)
           r == Resolve(inst, subject, net)
           call1 == [call0 EXCEPT !.subject = subject, !.strategy_calls = 1,
                                  !.registry_calls = IF need THEN <<r.call>> ELSE <<>>]
       IN IF need /\ ~r.ans.ok
          THEN [same EXCEPT !.known = KnownAfterRegistryError(known, subject)]
               @@ [last |-> Raise(call1, "SchemaRegistryError", Msg("registry", PyNone))]
          ELSE
          LET id1 == IF need THEN r.ans.id ELSE id
              after == IF need
                       THEN [known |-> KnownAfter(known, subject), id |-> id1,
                             registered |-> r.ans.registered, latest |-> r.ans.latest,
                             resolved |-> [resolved EXCEPT ![subject] = Append(@, r.ans.id)]]
                       ELSE same
              value == ToValue(inst, obj, ctx)
              call2 == [call1 EXCEPT !.to_dict_calls = IF inst.to_dict # PyNone THEN 1 ELSE 0,
                                     !.validate_calls = 1]
              verr == EncodeValidation(inst, value)
          IN IF verr # NoError
             THEN after @@ [last |-> Raise(call2, "SerializationError", verr)]
             ELSE IF ~Packable(MagicByte, id1)
             THEN after @@ [last |-> Raise(call2, "struct.error", Msg("pack", PyNone))]
             ELSE IF ~Serializable(value)
             THEN after @@ [last |-> Raise(call2, "TypeError", Msg("not JSON serializable", PyNone))]
             ELSE after @@ [last |-> Return(call2, PyBytes(Frame(id1, value)))]

Encode(obj, ctx) ==
    /\ ser.live
    /\ \E net \in BOOLEAN :
          \E r \in {EncodeResult(ser, known_subjects, schema_id, obj, ctx, net)} :
             /\ \A s \in Subjects : Len(r.resolved[s]) <= MaxResolutions
             /\ known_subjects' = r.known
             /\ schema_id' = r.id
             /\ registered' = r.registered
             /\ latest' = r.latest
             /\ resolved' = r.resolved
             /\ last' = r.last
    /\ UNCHANGED <<ser, des, thr>>

(***************************************************************************)
(* JSONDeserializer                                                        *)
(***************************************************************************)
NoDeserializer == [live |-> FALSE]

DeserializerInit(schema_str, from_dict) ==
    IF from_dict # PyNone /\ ~Callable(from_dict)
    THEN [ok |-> FALSE, msg |-> Msg("from_dict must be callable", PyNone), inst |-> NoDeserializer]
    ELSE [ok |-> TRUE, msg |-> NoError,
          inst |-> [live |-> TRUE, schema |-> schema_str, from_dict |-> from_dict]]

NewDeserializer(schema_str, from_dict) ==
    /\ ~des.live
    /\ LET r == DeserializerInit(schema_str, from_dict)
           call == [Call("JSONDeserializer", PyNone, NoCtx) EXCEPT
                       !.schema_str = schema_str, !.hook = from_dict]
       IN /\ des' = r.inst
          /\ last' = IF r.ok THEN call ELSE Raise(call, "ValueError", r.msg)
    /\ UNCHANGED <<ser, known_subjects, schema_id, registered, latest, resolved, thr>>

\* data is None
DataIsNull(data) == data = PyNone
\* mutant: a header without payload is let through
TooShort_OffByOne(data) == Len(data) < 5
\* if len(data) <= 5
TooShort(data) == Len(data) <= 5
\* if magic != _MAGIC_BYTE
BadMagic(magic) == magic # MagicByte

\* mutant: the decoded document is not validated
DecodeValidation_Skipped(inst, value) == NoError
\* validate(instance=obj_dict, schema=self._parsed_schema)
DecodeValidation(inst, value) == ValidationErrorOf(value, ParsedSchemaOf(inst))

\* what one call of the deserializer on data gives its caller
DecodeResult(inst, data, ctx) ==
    LET call0 == Call("decode", data, ctx)
    IN IF DataIsNull(data) THEN Return(call0, PyNone)
       ELSE IF TooShort(data.b)
       THEN Raise(call0, "SerializationError", Msg("total data size", PyInt(Len(data.b))))
       ELSE
       LET h == StructUnpack(SubSeq(data.b, 1, 5))
           payload == SubSeq(data.b, 6, Len(data.b))
       IN IF BadMagic(h.magic)
          THEN Raise(call0, "SerializationError", Msg("Unexpected magic byte", PyInt(h.magic)))
          ELSE
          LET doc == JsonLoads(payload)
              call1 == [call0 EXCEPT !.loads_calls = 1]
          IN IF ~doc.ok THEN Raise(call1, "JSONDecodeError", Msg("json", PyNone))
             ELSE
             LET verr == DecodeValidation(inst, doc.v)
                 call2 == [call1 EXCEPT !.validate_calls = 1]
             IN IF verr # NoError THEN Raise(call2, "SerializationError", verr)
                ELSE IF inst.from_dict # PyNone
                THEN Return([call2 EXCEPT !.from_dict_calls = 1], FromDict(doc.v, ctx))
                ELSE Return(call2, doc.v)

\* the bytes a consumer may be handed: None, truncated and foreign messages,
\* envelopes around well-formed and malformed documents
Payloads ==
    {<<>>, <<123>>, JsonDumps(Order42), JsonDumps(EmptyDict),
     <<123, 34, 105, 100, 34, 58, 52, 50, 125>>}
Envelopes ==
    {<<m>> \o PackUInt32(id) \o p : m \in {0, 255}, id \in {SchemaContentId}, p \in Payloads}
    \cup {<<0>> \o PackUInt32(id) \o JsonDumps(Order42) : id \in {U32(1, 515), U32(65535, 65535)}}
DecodeInputs ==
    {PyNone} \cup {PyBytes(b) : b \in {<<>>, <<0>>, <<1, 2, 3, 4>>} \cup Envelopes}

\* the message just produced by the serializer, if any
Produced == last.op = "encode" /\ last.outcome = "return" /\ last.ret # PyNone

Decode(data, ctx) ==
    /\ des.live
    /\ last' = [DecodeResult(des, data, ctx) EXCEPT
                    !.origin = IF Produced /\ data = last.ret THEN last.arg ELSE Absent]
    /\ UNCHANGED <<ser, known_subjects, schema_id, des, registered, latest, resolved, thr>>

(***************************************************************************)
(* JSONSerializer.__call__ step by step, for callers on several threads    *)
(* sharing one instance without a lock.  A step is one access to the       *)
(* instance's fields or one registry call; what a thread computes on its   *)
(* own locals goes with the access that follows it.                        *)
(***************************************************************************)
Threads == {1, 2}
\* how many calls each thread makes
CallsPerThread == 1

Idle == [pc |-> "idle", calls |-> 0, obj |-> PyNone, ctx |-> NoCtx, subject |-> "",
         rid |-> NoId, asked |-> FALSE, outcome |-> "none", exc |-> "none", ret |-> PyNone]
Done(th, outcome, exc, ret) ==
    [th EXCEPT !.pc = "done", !.outcome = outcome, !.exc = exc, !.ret = ret]

\* lines 210-215: the None check, the subject, the test of _known_subjects
Begin(t, obj, ctx) ==
    /\ ser.live
    /\ thr[t].pc \in {"idle", "done"} /\ thr[t].calls < CallsPerThread
    /\ LET th == [Idle EXCEPT !.calls = thr[t].calls + 1, !.obj = obj, !.ctx = ctx]
           subject == SubjectOf(ser, ctx)
       IN thr' = [thr EXCEPT ![t] =
                    IF IsNull(obj) THEN Done(th, "return", "none", PyNone)
                    ELSE [th EXCEPT !.subject = subject,
                                    !.pc = IF NeedsResolution(subject, known_subjects)
                                           THEN "resolve" ELSE "convert"]]
    /\ UNCHANGED <<ser, known_subjects, schema_id, des, registered, latest, last, resolved>>

\* lines 216-234, right-hand sides: the registry call of the configured mode
CallRegistry(t) ==
    /\ thr[t].pc = "resolve"
    /\ Len(resolved[thr[t].subject]) < MaxResolutions
    /\ \E net \in BOOLEAN :
          \E r \in {Resolve(ser, thr[t].subject, net)} :
             /\ registered' = r.ans.registered
             /\ latest' = r.ans.latest
             /\ IF r.ans.ok
                THEN /\ thr' = [thr EXCEPT ![t].pc = "store", ![t].rid = r.ans.id,
                                           ![t].asked = TRUE]
                     /\ resolved' = [resolved EXCEPT ![thr[t].subject] = Append(@, r.ans.id)]
                ELSE /\ thr' = [thr EXCEPT ![t] = Done(@, "raise", "SchemaRegistryError", PyNone)]
                     /\ UNCHANGED resolved
    /\ UNCHANGED <<ser, known_subjects, schema_id, des, last>>

\* mutant: the id returned is not stored
StoreId_Forgotten(t) ==
    /\ thr[t].pc = "store"
    /\ thr' = [thr EXCEPT ![t].pc = "add"]
    /\ UNCHANGED <<ser, known_subjects, schema_id, des, registered, latest, last, resolved>>
\* lines 218, 227, 234: self._schema_id = <the id returned>
StoreId(t) ==
    /\ thr[t].pc = "store"
    /\ schema_id' = thr[t].rid
    /\ thr' = [thr EXCEPT ![t].pc = "add"]
    /\ UNCHANGED <<ser, known_subjects, des, registered, latest, last, resolved>>

\* line 235: self._known_subjects.add(subject)
AddSubject(t) ==
    /\ thr[t].pc = "add"
    /\ known_subjects' = KnownAfter(known_subjects, thr[t].subject)
    /\ thr' = [thr EXCEPT ![t].pc = "convert"]
    /\ UNCHANGED <<ser, schema_id, des, registered, latest, last, resolved>>

\* lines 237-254: to_dict and validate on the thread's own value, then the
\* envelope written with self._schema_id as it is now
ValidateAndFrame(t) ==
    /\ thr[t].pc = "convert"
    /\ LET value == ToValue(ser, thr[t].obj, thr[t].ctx)
           verr == EncodeValidation(ser, value)
       IN thr' = [thr EXCEPT ![t] =
                    IF verr # NoError THEN Done(@, "raise", "SerializationError", PyNone)
                    ELSE IF ~Packable(MagicByte, schema_id)
                    THEN Done(@, "raise", "struct.error", PyNone)
                    ELSE IF ~Serializable(value) THEN Done(@, "raise", "TypeError", PyNone)
                    ELSE Done(@, "return", "none", PyBytes(Frame(schema_id, value)))]
    /\ UNCHANGED <<ser, known_subjects, schema_id, des, registered, latest, last, resolved>>

(***************************************************************************)
(* Spec: one serializer in sequential use, from its construction on, with  *)
(* the registry changing under it.                                         *)
(***************************************************************************)
NoCall == [Call("none", PyNone, NoCtx) EXCEPT !.pre_known = {}, !.pre_id = NoId]

Init ==
    /\ ser = NoSerializer
    /\ known_subjects = {}
    /\ schema_id = NoId
    /\ des = NoDeserializer
    /\ registered = {}
    /\ latest = [s \in Subjects |-> NoId]
    /\ last = NoCall
    /\ resolved = [s \in Subjects |-> <<>>]
    /\ thr = [t \in Threads |-> Idle]

Next ==
    \/ \E str \in SchemaStrs, to_dict \in HookOptions("to_dict"), conf \in Confs :
          NewSerializer(str, to_dict, conf)
    \/ \E obj \in Objects \ {MixedKeys}, ctx \in Ctxs : Encode(obj, ctx)
    \/ \E s \in Subjects, id \in OtherIds : RegistryPublish(s, id)
    \/ \E s \in Subjects : RegistryRegister(s)

Spec == Init /\ [][Next]_vars

(***************************************************************************)
(* CodecSpec: a constructed serializer and a constructed deserializer      *)
(* exchanging messages; the registry answers every resolution.             *)
(***************************************************************************)
CodecIds == Ids \cup {U32(1, 515)}
ModeConfs == [auto : BoolOptions, normalize : {Absent}, latest : BoolOptions,
            strategy : {Absent}, extra : {Absent}]
Serializers ==
    {SerializerInit("Order", to_dict, conf).inst :
        to_dict \in {PyNone, PyCallable("to_dict")}, conf \in ModeConfs} \ {NoSerializer}
Deserializers ==
    {DeserializerInit("Order", from_dict).inst :
        from_dict \in {PyNone, PyCallable("from_dict")}}

CodecInit ==
    /\ ser \in Serializers
    /\ known_subjects = {}
    /\ schema_id = NoId
    /\ des \in Deserializers
    /\ registered = Subjects
    /\ \E id \in CodecIds :
          latest = [s \in Subjects |-> IF s = "orders-value" THEN id ELSE SchemaContentId]
    /\ last = NoCall
    /\ resolved = [s \in Subjects |-> <<>>]
    /\ thr = [t \in Threads |-> Idle]

CodecNext ==
    \/ \E obj \in Objects, ctx \in Ctxs : Encode(obj, ctx)
    \/ \E data \in DecodeInputs \cup (IF Produced THEN {last.ret} ELSE {}) :
          Decode(data, [topic |-> "orders", field |-> "value"])

CodecSpec == CodecInit /\ [][CodecNext]_vars

(***************************************************************************)
(* ConfigSpec: both codecs from their construction on, with every          *)
(* configuration a caller may pass, then in use against a registry that    *)
(* holds the schema under every subject.                                   *)
(***************************************************************************)
ConfigInit ==
    /\ ser = NoSerializer
    /\ known_subjects = {}
    /\ schema_id = NoId
    /\ des = NoDeserializer
    /\ registered = Subjects
    /\ latest = [s \in Subjects |-> SchemaContentId]
    /\ last = NoCall
    /\ resolved = [s \in Subjects |-> <<>>]
    /\ thr = [t \in Threads |-> Idle]

ConfigNext ==
    \/ \E str \in SchemaStrs, to_dict \in HookOptions("to_dict"), conf \in Confs :
          NewSerializer(str, to_dict, conf)
    \/ \E str \in SchemaStrs, from_dict \in HookOptions("from_dict") :
          NewDeserializer(str, from_dict)
    \/ \E obj \in {PyNone, Order42, EmptyDict}, ctx \in Ctxs : Encode(obj, ctx)
    \/ \E data \in {PyNone, PyBytes(<<0>>), PyBytes(Frame(SchemaContentId, EmptyDict))}
                    \cup (IF Produced THEN {last.ret} ELSE {}) :
          Decode(data, [topic |-> "orders", field |-> "value"])

ConfigSpec == ConfigInit /\ [][ConfigNext]_vars

(***************************************************************************)
(* ConcurrentSpec: two threads calling one constructed serializer, the     *)
(* serializer's schema registered under every subject, other clients       *)
(* publishing newer versions meanwhile.                                    *)
(***************************************************************************)
ConcurrentInit ==
    /\ ser \in {SerializerInit("Order", PyNone, conf).inst : conf \in ModeConfs} \ {NoSerializer}
    /\ known_subjects = {}
    /\ schema_id = NoId
    /\ des = NoDeserializer
    /\ registered = Subjects
    /\ latest = [s \in Subjects |-> SchemaContentId]
    /\ last = NoCall
    /\ resolved = [s \in Subjects |-> <<>>]
    /\ thr = [t \in Threads |-> Idle]

ConcurrentNext ==
    \/ \E t \in Threads, obj \in {PyNone, Order42, EmptyDict}, ctx \in Ctxs : Begin(t, obj, ctx)
    \/ \E t \in Threads : CallRegistry(t)
    \/ \E t \in Threads : StoreId(t)
    \/ \E t \in Threads : AddSubject(t)
    \/ \E t \in Threads : ValidateAndFrame(t)
    \/ \E s \in Subjects, id \in OtherIds : RegistryPublish(s, id)

ConcurrentSpec == ConcurrentInit /\ [][ConcurrentNext]_vars

(***************************************************************************)
(* ValidationUtil.check_kafka_errors                                       *)
(***************************************************************************)
\* an instance of KafkaError
KafkaError(code) == [t |-> "KafkaError", code |-> code]
\* isinstance(errors, list)
IsList(v) == v.t = "list"
\* isinstance(error, KafkaError)
IsKafkaError(v) == v.t = "KafkaError"

\* the call returns None or raises TypeError: the isinstance test of the
\* argument first, then the elements in order
CheckKafkaErrors(errors) ==
    IF ~IsList(errors)
    THEN [outcome |-> "raise", exc |-> "TypeError",
          msg |-> Msg("errors should be None or a list", PyNone)]
    ELSE IF \E i \in DOMAIN errors.elems : ~IsKafkaError(errors.elems[i])
    THEN [outcome |-> "raise", exc |-> "TypeError",
          msg |-> Msg("Expected list of KafkaError", PyNone)]
    ELSE [outcome |-> "return", exc |-> "none", msg |-> NoError]

\* the longest list of errors passed
MaxErrors == 3
\* what a list handed to the call may hold
ErrorElements == {KafkaError(1), KafkaError(2), PyNone, PyInt(1), PyStr(<<120>>)}
\* the arguments: None, values that are no list, lists
ErrorsArguments ==
    {PyNone, PyInt(1), KafkaError(1), PyTuple(<<KafkaError(1)>>)}
    \cup {PyList(elems) : elems \in UNION {[1 .. n -> ErrorElements] : n \in 0 .. MaxErrors}}

CheckKafkaErrorsCall(errors) ==
    /\ LET r == CheckKafkaErrors(errors)
       IN last' = [Call("check_kafka_errors", errors, NoCtx) EXCEPT
                      !.outcome = r.outcome, !.exc = r.exc, !.msg = r.msg]
    /\ UNCHANGED <<ser, known_subjects, schema_id, des, registered, latest, resolved, thr>>

(***************************************************************************)
(* ValidationSpec: check_kafka_errors called with every argument.          *)
(***************************************************************************)
ValidationNext == \E errors \in ErrorsArguments : CheckKafkaErrorsCall(errors)

ValidationSpec == Init /\ [][ValidationNext]_vars

(***************************************************************************)
(* Properties.                                                             *)
(***************************************************************************)
EncodeCall == last.op = "encode"
DecodeCall == last.op = "decode"
Returned == last.outcome = "return"
Raised(exc) == last.outcome = "raise" /\ last.exc = exc
\* the call returned an envelope
ReturnedBytes == Returned /\ last.ret.t = "bytes"
\* the registry call made by the last call failed
RegistryCallFailed ==
    \E i \in DOMAIN last.registry_calls : ~last.registry_calls[i].ok
\* the serializer's state is as it was when the last call began
StateAsBefore == known_subjects = last.pre_known /\ schema_id = last.pre_id
\* the schema id an envelope carries, read byte by byte
EnvelopeId(b) == U32(b[2] * 256 + b[3], b[4] * 256 + b[5])

\* C1: the envelope of a successful encode for subject s carries the id the
\* registry returned when s itself was resolved, whatever other subjects were
\* resolved in between.
C1_EnvelopeCarriesSubjectsOwnId ==
    (EncodeCall /\ ReturnedBytes)
        => /\ resolved[last.subject] # <<>>
           /\ EnvelopeId(last.ret.b) = resolved[last.subject][1]

\* C2: in sequential use the registry answers at most one resolution per
\* subject, and an encode for a subject already resolved makes no registry
\* call at all.
C2_AtMostOneResolutionPerSubject ==
    /\ \A s \in Subjects : Len(resolved[s]) <= 1
    /\ (EncodeCall /\ last.subject \in last.pre_known) => last.registry_calls = <<>>

C2_Witness ==
    /\ EncodeCall /\ ReturnedBytes
    /\ last.subject \in last.pre_known
    /\ Len(resolved[last.subject]) = 1

\* C3: when the registry call of a resolution fails, encode raises the
\* registry's error, returns no bytes, made that one call only (no retry),
\* and leaves the known subjects and the stored id as they were, the subject
\* still unresolved; and every encode for an unresolved subject makes the
\* registry call, so the next encode for that subject makes it again.
C3_RegistryFailureLeavesSubjectUnresolved ==
    /\ (EncodeCall /\ RegistryCallFailed)
          => /\ Raised("SchemaRegistryError")
             /\ last.ret = PyNone
             /\ Len(last.registry_calls) = 1
             /\ StateAsBefore
             /\ last.subject \notin known_subjects
    /\ (EncodeCall /\ ~IsNull(last.arg) /\ last.subject \notin last.pre_known)
          => /\ Len(last.registry_calls) = 1
             /\ last.registry_calls[1].subject = last.subject

C3_Witness ==
    /\ EncodeCall /\ RegistryCallFailed
    /\ last.pre_known # {}
    /\ last.subject \notin known_subjects

\* C5: encode of None returns None having called neither the registry, nor
\* the subject name strategy, nor to_dict, nor the validator, and leaves the
\* known subjects and the stored id unchanged; decode of None returns None.
C5_NullPassesThrough ==
    ((EncodeCall \/ DecodeCall) /\ last.arg = PyNone)
        => /\ Returned /\ last.ret = PyNone
           /\ last.registry_calls = <<>>
           /\ last.strategy_calls = 0 /\ last.to_dict_calls = 0
           /\ last.validate_calls = 0 /\ last.loads_calls = 0
           /\ last.from_dict_calls = 0
           /\ StateAsBefore

C5_Witness ==
    /\ EncodeCall /\ last.arg = PyNone /\ last.ret = PyNone
    /\ known_subjects # {}
    /\ ser.to_dict # PyNone

\* C6: an encode whose value (after to_dict) does not conform to the parsed
\* schema raises and returns no bytes; unless the resolution failed first, it
\* raises SerializationError with the validator's message.  No envelope is
\* returned for a value that fails validation.
C6_InvalidValueIsNotEncoded ==
    (EncodeCall /\ ~IsNull(last.arg)
       /\ ValidationErrorOf(ToValue(ser, last.arg, last.ctx), ParsedSchemaOf(ser)) # NoError)
        => /\ last.outcome = "raise" /\ last.ret = PyNone
           /\ ~RegistryCallFailed
                 => /\ Raised("SerializationError")
                    /\ last.msg = ValidationErrorOf(ToValue(ser, last.arg, last.ctx),
                                                    ParsedSchemaOf(ser))

C6_Witness ==
    /\ EncodeCall /\ Raised("SerializationError")
    /\ last.msg = Msg("is a required property", PyStr(KeyId))

\* C7: a constructor call with auto.register.schemas and use.latest.version
\* both true (after the defaults are merged in) raises ValueError and leaves
\* no instance; no live serializer has both set; encode never raises the
\* configuration error.
BothModes(conf) ==
    MergedConf(conf).auto = PyBool(TRUE) /\ MergedConf(conf).latest = PyBool(TRUE)
ConflictMsg == Msg("cannot enable both use.latest.version and auto.register.schemas", PyNone)
C7_AutoRegisterExcludesUseLatest ==
    /\ (last.op = "JSONSerializer" /\ BothModes(last.arg))
          => Raised("ValueError") /\ ~ser.live
    /\ ser.live => ~(ser.auto_register /\ ser.use_latest_version)
    /\ EncodeCall => last.exc # "ValueError" /\ last.msg # ConflictMsg

C7_Witness ==
    /\ last.op = "JSONSerializer" /\ BothModes(last.arg)
    /\ Raised("ValueError") /\ last.msg = ConflictMsg
    /\ ~ser.live

\* C8: decode of data that is not None raises the framing error whenever
\* len(data) <= 5, and whenever len(data) >= 6 and the first byte is not the
\* magic byte, the message then citing the byte seen (as the signed 8-bit
\* number it was unpacked to); the payload is neither parsed nor validated and
\* from_dict is not called.
C8_FramingErrors ==
    (DecodeCall /\ last.arg # PyNone)
        => LET b == last.arg.b
           IN /\ Len(b) <= 5
                    => /\ Raised("SerializationError")
                       /\ last.msg = Msg("total data size", PyInt(Len(b)))
              /\ (Len(b) >= 6 /\ b[1] # 0)
                    => /\ Raised("SerializationError")
                       /\ last.msg.kw = "Unexpected magic byte"
                       /\ \E v \in -128 .. 127 : last.msg.what = PyInt(v) /\ v % 256 = b[1]
              /\ (Len(b) <= 5 \/ b[1] # 0)
                    => /\ last.ret = PyNone
                       /\ last.loads_calls = 0 /\ last.validate_calls = 0
                       /\ last.from_dict_calls = 0

C8_Witness ==
    /\ DecodeCall /\ last.arg # PyNone
    /\ Len(last.arg.b) >= 6 /\ last.arg.b[1] = 255
    /\ Raised("SerializationError") /\ last.msg.what = PyInt(-1)

\* a value json.loads can give back: no key that is not a string, no tuple,
\* no application object
RECURSIVE JsonNative(_)
JsonNative(v) ==
    CASE v.t \in {"int", "str", "none"} -> TRUE
      [] v.t = "dict" -> \A i \in DOMAIN v.items :
                            v.items[i][1].t = "str" /\ JsonNative(v.items[i][2])
      [] v.t = "list" -> \A i \in DOMAIN v.elems : JsonNative(v.elems[i])
      [] OTHER -> FALSE

\* the last call decoded the message the serializer produced from last.origin,
\* neither side using a hook, both configured with the same schema
RoundTrip ==
    /\ DecodeCall /\ last.origin # Absent
    /\ ser.to_dict = PyNone /\ des.from_dict = PyNone
    /\ des.schema = ser.schema
    /\ ValidationErrorOf(last.origin, ParsedSchemaOf(ser)) = NoError

\* C9 as claimed: every value that conforms to the schema comes back equal
\* from decode(encode(value)).
C9_RoundTripOfEveryConformingValue ==
    RoundTrip => Returned /\ PyEq(last.ret, last.origin)

\* C9: every value that conforms to the schema and is a JSON value (dict keys
\* are strings, sequences are lists) comes back equal from
\* decode(encode(value)), whatever the mode and the schema id.
C9_RoundTripOfJsonValues ==
    (RoundTrip /\ JsonNative(last.origin)) => Returned /\ PyEq(last.ret, last.origin)

C9_Witness ==
    /\ RoundTrip /\ last.origin = Order42
    /\ Returned /\ last.ret = Order42
    /\ schema_id = U32(65535, 65535)

\* C10: a successful encode returns exactly: the byte 0, the stored schema id
\* in four bytes most significant first, then the JSON text of the value, and
\* nothing else.
C10_EnvelopeLayout ==
    (EncodeCall /\ ReturnedBytes)
        => LET b == last.ret.b
               doc == JsonDumps(ToValue(ser, last.arg, last.ctx))
           IN /\ Len(b) = 5 + Len(doc)
              /\ \A i \in 1 .. Len(b) : b[i] \in 0 .. 255
              /\ b[1] = 0
              /\ b[2] * 256 + b[3] = schema_id.hi
              /\ b[4] * 256 + b[5] = schema_id.lo
              /\ \A i \in 1 .. Len(doc) : b[5 + i] = doc[i]

C10_Witness ==
    /\ EncodeCall /\ ReturnedBytes
    /\ schema_id = U32(1, 515)
    /\ last.ret.b = <<0, 0, 1, 2, 3, 123, 34, 105, 100, 34, 58, 32, 52, 50, 125>>

\* both threads have finished a call for the same subject, each having found
\* the subject unresolved and obtained an id from the registry
BothResolvedSameSubject ==
    /\ \A t \in Threads : thr[t].pc = "done" /\ thr[t].asked
    /\ thr[1].subject = thr[2].subject
ReturnedIds == {thr[t].rid : t \in Threads}
\* no call for another subject has stored an id of its own
NoOtherSubjectResolved == \A s \in Subjects \ {thr[1].subject} : resolved[s] = <<>>
Conforms(obj) == ValidationErrorOf(ToValue(ser, obj, NoCtx), ParsedSchemaOf(ser)) = NoError

ResolvingCall == EncodeCall /\ ~IsNull(last.arg) /\ last.subject \notin last.pre_known
\* the registry operation of each mode
ModeOperation ==
    IF ser.use_latest_version THEN "get_latest_version"
    ELSE IF ser.auto_register THEN "register_schema" ELSE "lookup_schema"

\* C11: an encode for an unseen subject makes exactly one registry call, for
\* that subject: get_latest_version without the normalize flag in use-latest
\* mode, register_schema with the flag in auto-register mode, lookup_schema
\* with the flag otherwise; when the call returns, the id it returned is the
\* id stored and the id of the envelope.
C11_OneRegistryOperationByMode ==
    ResolvingCall
        => /\ Len(last.registry_calls) = 1
           /\ LET c == last.registry_calls[1]
              IN /\ c.subject = last.subject
                 /\ c.op = ModeOperation
                 /\ c.normalize = IF ser.use_latest_version THEN Absent
                                  ELSE PyBool(ser.normalize_schemas)
                 /\ c.ok => /\ resolved[last.subject] # <<>>
                            /\ schema_id = resolved[last.subject][Len(resolved[last.subject])]
                            /\ ReturnedBytes => EnvelopeId(last.ret.b) = schema_id

C11_Witness ==
    /\ ResolvingCall /\ ReturnedBytes
    /\ last.registry_calls = <<RegistryCallRecord("lookup_schema", last.subject, PyBool(TRUE), TRUE)>>
    /\ known_subjects = Subjects

\* what the caller of a call observes: the value returned or the error raised
Outcome(call) == [outcome |-> call.outcome, exc |-> call.exc, msg |-> call.msg, ret |-> call.ret]
\* the envelope b with its bytes 1-4 replaced by the given id
WithSchemaId(b, id) == PyBytes(<<b[1]>> \o PackUInt32(id) \o SubSeq(b, 6, Len(b)))

\* C12: decode of an envelope that starts with the magic byte gives the same
\* value or the same error whatever schema id its bytes 1-4 hold; decode makes
\* no registry call and leaves the serializer's known subjects and stored id
\* alone.
C12_DecodeIgnoresSchemaId ==
    DecodeCall
        => /\ last.registry_calls = <<>>
           /\ StateAsBefore
           /\ (last.arg # PyNone /\ Len(last.arg.b) >= 6 /\ last.arg.b[1] = MagicByte)
                 => \A id \in CodecIds :
                       Outcome(DecodeResult(des, WithSchemaId(last.arg.b, id), last.ctx))
                          = Outcome(last)

C12_Witness ==
    /\ DecodeCall /\ Returned /\ last.ret = Order42
    /\ EnvelopeId(last.arg.b) = U32(65535, 65535)
    /\ known_subjects # {} /\ schema_id = SchemaContentId

\* C13: the known subjects are empty when the constructor returns and only
\* grow afterwards, whether a call succeeds or fails; the registry returns no
\* further id for a subject that is known; a step of the registry alone
\* changes nothing of the serializer.
C13_KnownSubjectsOnlyGrow ==
    [][ /\ (last.op = "none" /\ last'.op = "JSONSerializer") => known_subjects' = {}
        /\ ser.live => known_subjects \subseteq known_subjects'
        /\ \A s \in known_subjects : resolved'[s] = resolved[s]
        /\ (latest' # latest /\ last' = last)
              => /\ ser' = ser
                 /\ known_subjects' = known_subjects
                 /\ schema_id' = schema_id ]_vars

C13_Witness ==
    /\ EncodeCall /\ ReturnedBytes /\ last.registry_calls = <<>>
    /\ known_subjects = Subjects
    /\ latest[last.subject] # resolved[last.subject][1]

\* arguments the constructors must refuse
BadHook(h) == h # PyNone /\ h.t # "callable"
BadOption(v, type) == v # Absent /\ v.t # type
BadSerializerArgs(schema_str, to_dict, conf) ==
    \/ BadHook(to_dict)
    \/ BadOption(conf.auto, "bool") \/ BadOption(conf.normalize, "bool")
    \/ BadOption(conf.latest, "bool")
    \/ BadOption(conf.strategy, "callable")
    \/ conf.extra # Absent
    \/ ~Has(ParsedSchema[schema_str], TxtTitle)

\* C14: a constructor given a hook that is not callable, an option of the
\* wrong type, an unrecognized key or a schema without title raises ValueError
\* and leaves no instance; every instance that exists holds well-typed
\* options and a titled schema; encode and decode never raise ValueError.
C14_ConfigurationErrorsAtConstruction ==
    /\ (last.op = "JSONSerializer" /\ BadSerializerArgs(last.schema_str, last.hook, last.arg))
          => Raised("ValueError") /\ ~ser.live
    /\ (last.op = "JSONDeserializer" /\ BadHook(last.hook))
          => Raised("ValueError") /\ ~des.live
    /\ ser.live => /\ ~BadHook(ser.to_dict)
                   /\ ser.subject_name_func.t = "callable"
                   /\ {ser.auto_register, ser.normalize_schemas, ser.use_latest_version}
                         \subseteq BOOLEAN
                   /\ ser.schema_name = TitleOrder
    /\ des.live => ~BadHook(des.from_dict)
    /\ (EncodeCall \/ DecodeCall) => last.exc # "ValueError"

C14_Witness ==
    /\ last.op = "JSONDeserializer" /\ BadHook(last.hook)
    /\ Raised("ValueError") /\ ~des.live
    /\ ser.live /\ known_subjects # {}

\* the value of the last encode does not conform to the serializer's schema
ValueRejected ==
    ValidationErrorOf(ToValue(ser, last.arg, last.ctx), ParsedSchemaOf(ser)) # NoError

\* C15 as claimed: an encode that does not return bytes leaves the known
\* subjects and the stored id as they were before the call.
C15_FailedEncodeLeavesStateAsBefore ==
    (EncodeCall /\ last.outcome = "raise") => StateAsBefore

\* C15: an encode that raises returns nothing.  When it raises because the
\* registry call failed, the known subjects and the stored id are as before
\* the call.  When it raises later (the value does not conform, or cannot be
\* written), the subject is known and, if it was unseen before the call, the
\* stored id is the id the registry returned in this call: the state is the
\* one a successful call would have left.
C15_FailedEncodeKeepsResolution ==
    (EncodeCall /\ last.outcome = "raise")
        => /\ last.ret = PyNone
           /\ RegistryCallFailed => StateAsBefore
           /\ ~RegistryCallFailed
                 => /\ known_subjects = last.pre_known \cup {last.subject}
                    /\ IF last.subject \in last.pre_known
                       THEN schema_id = last.pre_id
                       ELSE /\ Len(last.registry_calls) = 1
                            /\ schema_id = resolved[last.subject][Len(resolved[last.subject])]

C15_Witness ==
    /\ EncodeCall /\ Raised("SerializationError") /\ ValueRejected
    /\ last.subject \notin last.pre_known
    /\ last.pre_known # {}
    /\ known_subjects = Subjects
    /\ schema_id # last.pre_id

\* the last call decoded an envelope whose payload is a JSON document
DecodedDocument ==
    /\ DecodeCall /\ last.arg # PyNone
    /\ Len(last.arg.b) >= 6 /\ last.arg.b[1] = MagicByte
    /\ JsonLoads(SubSeq(last.arg.b, 6, Len(last.arg.b))).ok
\* that document
Document == JsonLoads(SubSeq(last.arg.b, 6, Len(last.arg.b))).v

\* C16: when the decoded document does not conform to the deserializer's
\* schema, decode raises SerializationError with the validator's message,
\* from_dict is not called and nothing is returned; when it conforms, decode
\* returns from_dict(document, ctx) if a callback is configured, the document
\* itself otherwise.
C16_DecodeValidatesBeforeFromDict ==
    DecodedDocument
        => LET verr == ValidationErrorOf(Document, ParsedSchema[des.schema])
           IN /\ last.validate_calls = 1
              /\ verr # NoError
                    => /\ Raised("SerializationError") /\ last.msg = verr
                       /\ last.from_dict_calls = 0 /\ last.ret = PyNone
              /\ verr = NoError
                    => /\ Returned
                       /\ IF des.from_dict # PyNone
                          THEN last.from_dict_calls = 1 /\ last.ret = FromDict(Document, last.ctx)
                          ELSE last.from_dict_calls = 0 /\ last.ret = Document

C16_Witness ==
    /\ DecodedDocument /\ des.from_dict # PyNone
    /\ Document = EmptyDict
    /\ Raised("SerializationError")
    /\ last.msg = Msg("is a required property", PyStr(KeyId))
    /\ last.from_dict_calls = 0

\* both threads have finished a call, for two different subjects, each having
\* found its subject unresolved and obtained an id from the registry
BothResolvedDifferentSubjects ==
    /\ \A t \in Threads : thr[t].pc = "done" /\ thr[t].asked
    /\ thr[1].subject # thr[2].subject

\* C17: when two encode calls for two different subjects interleave, each
\* output carries the id the registry returned to that call for its own
\* subject, never the id returned to the other call.
C17_RacesBetweenSubjectsAreBenign ==
    BothResolvedDifferentSubjects
        => \A t \in Threads :
              thr[t].ret.t = "bytes" => EnvelopeId(thr[t].ret.b) = thr[t].rid

\* conf=None: no option is given
NoConf == [auto |-> Absent, normalize |-> Absent, latest |-> Absent,
           strategy |-> Absent, extra |-> Absent]

\* C18: a constructor call that sets use.latest.version to true and does not
\* set auto.register.schemas to false raises ValueError (the mutual-exclusion
\* error when auto.register.schemas is left out and nothing else is wrong);
\* a serializer constructed in use-latest mode was given
\* auto.register.schemas = false; a serializer constructed without options
\* registers automatically, does not normalize and does not use the latest
\* version.
C18_ExclusionCheckedAfterDefaults ==
    last.op = "JSONSerializer"
        => /\ (last.arg.latest = PyBool(TRUE) /\ last.arg.auto # PyBool(FALSE))
                 => Raised("ValueError") /\ ~ser.live
           /\ (last.arg.latest = PyBool(TRUE) /\ last.arg.auto = Absent
                  /\ ~BadHook(last.hook) /\ ~BadOption(last.arg.normalize, "bool"))
                 => last.msg = ConflictMsg
           /\ (ser.live /\ ser.use_latest_version)
                 => last.arg.auto = PyBool(FALSE) /\ ~ser.auto_register
           /\ (ser.live /\ last.arg = NoConf)
                 => /\ ser.auto_register /\ ~ser.use_latest_version
                    /\ ~ser.normalize_schemas

C18_Witness ==
    /\ last.op = "JSONSerializer"
    /\ last.arg = [NoConf EXCEPT !.latest = PyBool(TRUE)]
    /\ Raised("ValueError") /\ last.msg = ConflictMsg
    /\ ~ser.live

\* the errors of the decoder's framing checks
FramingErrors == {"total data size", "Unexpected magic byte"}
IsFramingError(call) ==
    call.outcome = "raise" /\ call.exc = "SerializationError" /\ call.msg.kw \in FramingErrors

\* C19: every envelope a successful encode returns is at least 6 bytes long
\* and starts with the magic byte, and decode of it raises no framing error.
C19_EncoderOutputPassesFraming ==
    /\ (EncodeCall /\ ReturnedBytes)
          => /\ Len(last.ret.b) >= 6
             /\ last.ret.b[1] = MagicByte
             /\ ~IsFramingError(DecodeResult(des, last.ret, last.ctx))
    /\ (DecodeCall /\ last.origin # Absent) => ~IsFramingError(last)

C19_Witness ==
    /\ DecodeCall /\ last.origin = Order42
    /\ EnvelopeId(last.arg.b) = U32(65535, 65535)
    /\ Len(last.arg.b) = 15
    /\ Returned /\ last.validate_calls = 1

\* C20: check_kafka_errors returns without raising for None and for a list
\* whose elements are all KafkaError, and raises TypeError for every other
\* argument.
C20_AcceptsNoneOrListOfKafkaErrors ==
    last.op = "check_kafka_errors"
        => IF \/ last.arg = PyNone
              \/ /\ last.arg.t = "list"
                 /\ \A i \in DOMAIN last.arg.elems : last.arg.elems[i].t = "KafkaError"
           THEN Returned /\ last.ret = PyNone
           ELSE Raised("TypeError")

====
